---- MODULE Spec2Model ----
(***************************************************************************)
(* Model of the outbound fetch layer of Surge: the retry callback that is  *)
(* registered with the dispatcher's retry interceptor, the Retry-After     *)
(* computation, the ResponseError type and the fetchWithLog facade.        *)
(*                                                                         *)
(* A logical request is one call of fetchWithLog.  Its physical attempts   *)
(* are the dispatches made for it; a failed attempt is handed to the       *)
(* retry callback, which either signals the error (cb(err)) or arms one    *)
(* timer (setTimeout(() => cb(null), retryTimeout)).                        *)
(*                                                                         *)
(* Spec runs one request over all inputs; SpecConcurrent runs two requests *)
(* and SpecRedirect adds the redirect interceptor, both over fewer inputs; *)
(* SpecLive is SpecRedirect with attempts, timers and continuations that   *)
(* complete.                                                               *)
(***************************************************************************)
EXTENDS Integers, Sequences, FiniteSets, TLC

\* ---------------------------------------------------------------------------
\* Bounds of the model
\* ---------------------------------------------------------------------------

\* Date.now() is read as one of the instants 0, 1000, ..., MaxNow * 1000 ms.
MaxNow == 2

\* ---------------------------------------------------------------------------
\* Program constants
\* ---------------------------------------------------------------------------

\* interceptors.retry({ maxRetries: 5, ... })
GlobalMaxRetries == 5
\* interceptors.retry({ ..., minTimeout: 10000, ... })
GlobalMinTimeout == 10000
\* const { maxRetries = 5, ... } = retryOptions
DefaultMaxRetries == 5
\* const { ..., minTimeout = 500, ... } = retryOptions
DefaultMinTimeout == 500
\* const { ..., maxTimeout = 30 * 1000, ... } = retryOptions
DefaultMaxTimeout == 30 * 1000
\* const { ..., timeoutFactor = 2, ... } = retryOptions
DefaultTimeoutFactor == 2

\* methods = ['GET', 'HEAD', 'OPTIONS', 'PUT', 'DELETE', 'TRACE']
DefaultMethods == {"GET", "HEAD", "OPTIONS", "PUT", "DELETE", "TRACE"}

\* ---------------------------------------------------------------------------
\* JavaScript values
\* ---------------------------------------------------------------------------

\* The absent value of an optional string (undefined).
Undefined == "undefined"
\* statusCode === null: no numeric statusCode on the error.
NoStatus == 0 - 1

\* A JavaScript number that is either an integer or NaN.
Num(n) == [nan |-> FALSE, v |-> n]
NaN == [nan |-> TRUE, v |-> 0]

\* Header values of 'retry-after'.  "absent": no such header; "empty": the
\* empty string; "seconds": a numeric string, val seconds; "date": an HTTP
\* date, val its instant in ms; "junk": neither a number nor a date.
NoHeader == [type |-> "absent", val |-> 0]
RetryAfterHeaders ==
    { NoHeader,
      [type |-> "empty", val |-> 0],
      [type |-> "seconds", val |-> 0],
      [type |-> "seconds", val |-> 2],
      [type |-> "seconds", val |-> 60],
      [type |-> "seconds", val |-> 0 - 3],
      [type |-> "date", val |-> 1000],
      [type |-> "date", val |-> 6000],
      [type |-> "date", val |-> 90000],
      [type |-> "junk", val |-> 0] }

\* A thrown value.  kind "error": an object that has a name (every Error
\* instance); "object": a non-null object without a name; "primitive": a
\* string; "null" and "undefined": themselves.
Thrown(kind, name, code, message, statusCode, retryAfter, digest) ==
    [kind |-> kind, name |-> name, code |-> code, message |-> message,
     statusCode |-> statusCode, retryAfter |-> retryAfter, digest |-> digest]

Err(name, code, message, statusCode, retryAfter) ==
    Thrown("error", name, code, message, statusCode, retryAfter, Undefined)

UnescapedMessage == "Request path contains unescaped characters"

ErrorNames == {"Error", "AbortError"}
ErrorCodes == {Undefined, "UND_ERR_REQ_RETRY", "ERR_UNESCAPED_CHARACTERS", "ECONNRESET"}
ErrorMessages == {"failed", UnescapedMessage}
ErrorStatuses == {NoStatus, 401, 403, 404, 405, 429, 500}

\* The errors a failed attempt hands to the retry callback.
AttemptErrors ==
    { Err(n, c, m, s, NoHeader) :
        n \in ErrorNames, c \in ErrorCodes, m \in ErrorMessages, s \in ErrorStatuses }
    \cup
    { Err("Error", "UND_ERR_REQ_RETRY", "failed", s, h) :
        s \in {429, 503}, h \in RetryAfterHeaders }

NoError == Thrown("none", Undefined, Undefined, "", NoStatus, NoHeader, Undefined)

\* ---------------------------------------------------------------------------
\* Retry options and request methods
\* ---------------------------------------------------------------------------

\* The options of interceptors.retry({ maxRetries: 5, minTimeout: 10000, ... }).
GlobalRetryOptions == [maxRetries |-> GlobalMaxRetries, minTimeout |-> GlobalMinTimeout]

\* opts.retryOptions as the callback can receive them: the global options,
\* global options with per-call overrides, and options that leave
\* maxRetries and minTimeout to the callback's defaults.
RetryOptionsInputs ==
    { GlobalRetryOptions,
      [maxRetries |-> 2, minTimeout |-> GlobalMinTimeout],
      [maxRetries |-> GlobalMaxRetries, minTimeout |-> 1000, maxTimeout |-> 5000,
       timeoutFactor |-> 3],
      [maxRetries |-> GlobalMaxRetries, minTimeout |-> GlobalMinTimeout,
       methods |-> {"GET", "POST"}],
      [maxTimeout |-> 2000] }

RequestMethods == {"GET", "PUT", "POST", "PATCH"}

\* const { x = d } = retryOptions
Opt(ro, field, default) == IF field \in DOMAIN ro THEN ro[field] ELSE default

maxRetriesOf(ro) == Opt(ro, "maxRetries", DefaultMaxRetries)
minTimeoutOf(ro) == Opt(ro, "minTimeout", DefaultMinTimeout)
maxTimeoutOf(ro) == Opt(ro, "maxTimeout", DefaultMaxTimeout)
timeoutFactorOf(ro) == Opt(ro, "timeoutFactor", DefaultTimeoutFactor)
methodsOf(ro) == Opt(ro, "methods", DefaultMethods)

\* ---------------------------------------------------------------------------
\* The retry callback
\* ---------------------------------------------------------------------------

Min(a, b) == IF a < b THEN a ELSE b

RECURSIVE Pow(_, _)
Pow(b, e) == IF e <= 0 THEN 1 ELSE b * Pow(b, e - 1)

\* Mutation: the check forgets err.name === 'AbortError'.
nonRetriable_noAbort(err) ==
    \/ err.code = "ERR_UNESCAPED_CHARACTERS"
    \/ err.message = UnescapedMessage

\* errorCode === 'ERR_UNESCAPED_CHARACTERS'
\*   || err.message === 'Request path contains unescaped characters'
\*   || err.name === 'AbortError'
nonRetriable(err) ==
    \/ err.code = "ERR_UNESCAPED_CHARACTERS"
    \/ err.message = UnescapedMessage
    \/ err.name = "AbortError"

\* Mutation: ECONNRESET is let through like the retry-requested code.
notRetryRequested_allowsReset(errorCode) ==
    errorCode \notin {"UND_ERR_REQ_RETRY", "ECONNRESET"}

\* errorCode !== 'UND_ERR_REQ_RETRY'
notRetryRequested(errorCode) == errorCode # "UND_ERR_REQ_RETRY"

\* Mutation: the budget check is off by one.
budgetExceeded_offByOne(counter, maxRetries) == counter > maxRetries + 1

\* counter > maxRetries
budgetExceeded(counter, maxRetries) == counter > maxRetries

\* Mutation: the negation of methods.includes(method) is dropped.
methodNotAllowed_inverted(methods, method) == method \in methods

\* Mutation: the method check is dropped.
methodNotAllowed_never(methods, method) == FALSE

\* Array.isArray(methods) && !methods.includes(method)
methodNotAllowed(methods, method) == method \notin methods

\* Mutation: every status from 400 on bails out.
terminalStatus_from400(statusCode) == statusCode # NoStatus /\ statusCode >= 400

\* Mutation: 404 is missing from the statuses that bail out.
terminalStatus_no404(statusCode) ==
    /\ statusCode # NoStatus
    /\ \/ statusCode = 401
       \/ statusCode = 403
       \/ statusCode = 405

\* statusCode != null && (statusCode === 401 || ... === 403 || ... === 404 || ... === 405)
terminalStatus(statusCode) ==
    /\ statusCode # NoStatus
    /\ \/ statusCode = 401
       \/ statusCode = 403
       \/ statusCode = 404
       \/ statusCode = 405

\* new Date(retryAfter).getTime() - current
calculateRetryAfterHeader(header, current) ==
    IF header.type = "date" THEN Num(header.val - current) ELSE NaN

\* Number(retryAfterHeader)
ToNumber(header) ==
    IF header.type = "seconds" THEN Num(header.val) ELSE NaN

\* Date.now() is read only by calculateRetryAfterHeader, that is for a
\* non-empty header that Number() turns into NaN.
readsClock(header) == header.type \notin {"absent", "empty"} /\ ToNumber(header).nan

\* Mutation: the seconds of Retry-After are not converted to milliseconds.
retryAfterOf_noMillis(header, current) ==
    IF header.type \in {"absent", "empty"}
    THEN Num(0 - 1)
    ELSE IF ToNumber(header).nan
         THEN calculateRetryAfterHeader(header, current)
         ELSE Num(ToNumber(header).v)

\* let retryAfter = -1; if (retryAfterHeader) { ... }
retryAfterOf(header, current) ==
    IF header.type \in {"absent", "empty"}
    THEN Num(0 - 1)
    ELSE IF ToNumber(header).nan
         THEN calculateRetryAfterHeader(header, current)
         ELSE Num(ToNumber(header).v * 1000)

\* Mutation: the exponent is counter instead of counter - 1.
backoff_exponentCounter(minTimeout, timeoutFactor, counter, maxTimeout) ==
    Min(minTimeout * Pow(timeoutFactor, counter), maxTimeout)

\* Math.min(minTimeout * (timeoutFactor ** (counter - 1)), maxTimeout)
backoff(minTimeout, timeoutFactor, counter, maxTimeout) ==
    Min(minTimeout * Pow(timeoutFactor, counter - 1), maxTimeout)

\* Mutation: the test is retryAfter >= 0.
retryTimeoutOf_zeroAccepted(retryAfter, ro, counter) ==
    IF ~retryAfter.nan /\ retryAfter.v >= 0
    THEN Min(retryAfter.v, maxTimeoutOf(ro))
    ELSE backoff(minTimeoutOf(ro), timeoutFactorOf(ro), counter, maxTimeoutOf(ro))

\* retryAfter > 0 ? Math.min(retryAfter, maxTimeout) : backoff
retryTimeoutOf(retryAfter, ro, counter) ==
    IF ~retryAfter.nan /\ retryAfter.v > 0
    THEN Min(retryAfter.v, maxTimeoutOf(ro))
    ELSE backoff(minTimeoutOf(ro), timeoutFactorOf(ro), counter, maxTimeoutOf(ro))

\* RetryState.attemptCount: 1 on the first failure, incremented on each
\* later failure, before the retry callback reads it as state.counter.
nextCounter(counter) == counter + 1

Fail == [cb |-> "error", retryTimeout |-> 0]
Schedule(t) == [cb |-> "timer", retryTimeout |-> t]

\* retry(err, { state, opts }, cb): "error" is cb(err), "timer" is
\* setTimeout(() => cb(null), retryTimeout).
retry(err, counter, method, ro, current) ==
    IF nonRetriable(err) THEN Fail
    ELSE IF notRetryRequested(err.code) THEN Fail
    ELSE IF budgetExceeded(counter, maxRetriesOf(ro)) THEN Fail
    ELSE IF methodNotAllowed(methodsOf(ro), method) THEN Fail
    ELSE IF terminalStatus(err.statusCode) THEN Fail
    ELSE Schedule(retryTimeoutOf(retryAfterOf(err.retryAfter, current), ro, counter))

\* ---------------------------------------------------------------------------
\* ResponseError and fetchWithLog
\* ---------------------------------------------------------------------------

\* The statuses of the responses the pipeline resolves with.
ResponseStatuses == {200, 204, 299, 300, 302, 304, 399, 400, 401, 404, 500, 503}

\* Response.ok
ok(status) == status >= 200 /\ status <= 299

\* new ResponseError(res): name is the constructor's name, code and
\* statusCode are res.status.
ResponseError(status) ==
    Thrown("error", "ResponseError", "status", "statusText", status, NoHeader, Undefined)

\* The TypeError raised by reading a property of null or undefined.
TypeErrorValue ==
    Thrown("error", "TypeError", Undefined, "Cannot read properties", NoStatus, NoHeader,
           Undefined)

\* Values fetch() can reject with besides the errors signalled by the retry
\* callback: errors carrying a digest, and abort reasons, which are arbitrary
\* values.
OtherRejections ==
    { Thrown("error", n, Undefined, "failed", NoStatus, NoHeader, d) :
        n \in {"Error", "AbortError", "TypeError"}, d \in {Undefined, "AbortError"} }
    \cup
    { Thrown("object", Undefined, Undefined, "", NoStatus, NoHeader, d) :
        d \in {Undefined, "AbortError"} }
    \cup
    { Thrown(k, Undefined, Undefined, "", NoStatus, NoHeader, Undefined) :
        k \in {"primitive", "null", "undefined"} }

\* typeof err
typeOf(err) ==
    CASE err.kind \in {"error", "object", "null"} -> "object"
      [] err.kind = "undefined" -> "undefined"
      [] OTHER -> "string"

\* typeof err === 'object' && err !== null && 'name' in err
hasName(err) == typeOf(err) = "object" /\ err.kind # "null" /\ err.kind = "error"

\* Mutation: only the digest is looked at.
isAbort_digestOnly(err) == err.digest # Undefined /\ err.digest = "AbortError"

\* err.name === 'AbortError' || ('digest' in err && err.digest === 'AbortError')
isAbort(err) ==
    \/ err.name = "AbortError"
    \/ (err.digest # Undefined /\ err.digest = "AbortError")

LogAbort == "[fetch abort]"
LogFail == "[fetch fail]"

\* if (res.status >= 400) throw ...
statusAtLeast400(status) == status >= 400

\* Mutation: 304 is not exempted.
notOkNot304_no304(status) == ~ok(status)

\* if (!res.ok && res.status !== 304) throw ...
notOkNot304(status) == ~ok(status) /\ status # 304

\* The try block after fetch() resolved with res: "throw" a ResponseError or
\* "return" res.
statusCheck(status) ==
    IF statusAtLeast400(status) THEN [do |-> "throw", err |-> ResponseError(status)]
    ELSE IF notOkNot304(status) THEN [do |-> "throw", err |-> ResponseError(status)]
    ELSE [do |-> "return", err |-> NoError]

\* Mutation: the catch block throws a new error that wraps the caught one.
catchBlock_wraps(err) ==
    [logged |-> IF hasName(err) /\ isAbort(err) THEN <<LogAbort>> ELSE <<>>,
     thrown |-> Thrown("error", "Error", Undefined, "fetch failed", NoStatus, NoHeader,
                       Undefined)]

\* The catch block: the lines logged and the value that leaves fetchWithLog.
\* Reading (err as any).name of null or undefined raises a TypeError before
\* console.log is called.
catchBlock(err) ==
    IF hasName(err)
    THEN IF isAbort(err)
         THEN [logged |-> <<LogAbort>>, thrown |-> err]
         ELSE [logged |-> <<>>, thrown |-> err]
    ELSE IF err.kind \in {"null", "undefined"}
         THEN [logged |-> <<>>, thrown |-> TypeErrorValue]
         ELSE [logged |-> <<LogFail>>, thrown |-> err]

\* ---------------------------------------------------------------------------
\* The redirect interceptor
\* ---------------------------------------------------------------------------

\* Mutation: the cap is configured one too high.
maxRedirections_plusOne == 5 + 1

\* interceptors.redirect({ maxRedirections: 5 })
maxRedirections == 5

\* The statuses of redirect responses that carry a Location.
RedirectStatuses == {301, 302, 307}

\* The terminal error of a redirect chain that exceeds the cap.
RedirectError ==
    Thrown("error", "Error", "UND_ERR_MAX_REDIRECTS", "max redirects", NoStatus, NoHeader,
           Undefined)

\* ---------------------------------------------------------------------------
\* State
\* ---------------------------------------------------------------------------

Requests == {"r1", "r2"}

Nows == { k * 1000 : k \in 0..MaxNow }

\* The smaller input sets of the runs with redirects and of the runs with two
\* concurrent requests.
FewErrors ==
    { Err("Error", "UND_ERR_REQ_RETRY", "failed", 500, NoHeader),
      Err("Error", "UND_ERR_REQ_RETRY", "failed", 429, [type |-> "seconds", val |-> 2]),
      Err("Error", "UND_ERR_REQ_RETRY", "failed", 404, NoHeader),
      Err("Error", "ECONNRESET", "failed", NoStatus, NoHeader),
      Err("AbortError", Undefined, "failed", NoStatus, NoHeader) }
FewOptions == { GlobalRetryOptions, [maxRetries |-> 2, minTimeout |-> GlobalMinTimeout] }
FewMethods == {"GET", "POST"}
FewStatuses == {200, 304, 404}
FewRejections ==
    { Thrown("error", "AbortError", Undefined, "failed", NoStatus, NoHeader, Undefined),
      Thrown("null", Undefined, Undefined, "", NoStatus, NoHeader, Undefined) }

VARIABLES
    callable,      \* the logical requests that can be issued in this run
    inputs,        \* "all" or "few": the input sets this run draws from
    pc,            \* per request: idle, inflight, backoff, resolved, rejected, returned, thrown
    method,        \* opts.method of the request
    retryOptions,  \* opts.retryOptions of the request
    counter,       \* state.counter, the attemptCount of the request
    attempts,      \* number of attempts dispatched: the first and those of the retry timer
    hops,          \* number of redirect hops followed so far
    lastErr,       \* the error of the last failed attempt
    decision,      \* outcome of the last run of the retry callback: none, error, timer
    timers,        \* number of timers armed by the retry callback so far
    retryTimeout,  \* delay of the last armed timer
    due,           \* whether the delay of the armed timer has elapsed
    clock,         \* the last Date.now() read by calculateRetryAfterHeader
    res,           \* status of the response fetch() resolved with, or NoStatus
    rejection,     \* the value fetch() rejected with, or NoError
    caught,        \* the value that entered the catch block, or NoError
    thrown,        \* the value fetchWithLog threw, or NoError
    log            \* the lines fetchWithLog logged

vars == <<callable, inputs, pc, method, retryOptions, counter, attempts, hops, lastErr,
          decision, timers, retryTimeout, due, clock, res, rejection, caught, thrown, log>>

pipelineVars == <<method, retryOptions, counter, attempts, hops, lastErr, decision,
                  timers, retryTimeout, due, clock>>

ErrorInputs == IF inputs = "all" THEN AttemptErrors ELSE FewErrors
OptionInputs == IF inputs = "all" THEN RetryOptionsInputs ELSE FewOptions
MethodInputs == IF inputs = "all" THEN RequestMethods ELSE FewMethods
StatusInputs == IF inputs = "all" THEN ResponseStatuses ELSE FewStatuses
RejectionInputs == IF inputs = "all" THEN OtherRejections ELSE FewRejections
facadeVars == <<caught, thrown, log>>

InitRequests ==
    /\ pc = [r \in Requests |-> "idle"]
    /\ method = [r \in Requests |-> "GET"]
    /\ retryOptions = [r \in Requests |-> GlobalRetryOptions]
    /\ counter = [r \in Requests |-> 0]
    /\ attempts = [r \in Requests |-> 0]
    /\ hops = [r \in Requests |-> 0]
    /\ lastErr = [r \in Requests |-> NoError]
    /\ decision = [r \in Requests |-> "none"]
    /\ timers = [r \in Requests |-> 0]
    /\ retryTimeout = [r \in Requests |-> 0]
    /\ due = [r \in Requests |-> FALSE]
    /\ clock = [r \in Requests |-> 0]
    /\ res = [r \in Requests |-> NoStatus]
    /\ rejection = [r \in Requests |-> NoError]
    /\ caught = [r \in Requests |-> NoError]
    /\ thrown = [r \in Requests |-> NoError]
    /\ log = [r \in Requests |-> <<>>]

Init ==
    /\ callable = {"r1"}
    /\ inputs = "all"
    /\ InitRequests

\* fetchWithLog(url, opts) up to `await fetch(url, opts)`: the first physical
\* attempt is dispatched.
Call(r) ==
    /\ r \in callable
    /\ pc[r] = "idle"
    /\ \E m \in MethodInputs, ro \in OptionInputs :
         /\ method' = [method EXCEPT ![r] = m]
         /\ retryOptions' = [retryOptions EXCEPT ![r] = ro]
    /\ attempts' = [attempts EXCEPT ![r] = 1]
    /\ pc' = [pc EXCEPT ![r] = "inflight"]
    /\ UNCHANGED <<callable, inputs, counter, hops, lastErr, decision, timers,
                   retryTimeout, due, clock, res, rejection, caught, thrown, log>>

\* The attempt in flight ends with a response that is handed to the caller of
\* fetch().
Respond(r) ==
    /\ pc[r] = "inflight"
    /\ \E status \in StatusInputs : res' = [res EXCEPT ![r] = status]
    /\ pc' = [pc EXCEPT ![r] = "resolved"]
    /\ UNCHANGED <<callable, inputs, pipelineVars, rejection, facadeVars>>

\* Mutation: state.counter is one counter shared by all requests.
OnError_sharedCounter(r) ==
    /\ pc[r] = "inflight"
    /\ \E err \in ErrorInputs, current \in Nows :
         LET n == nextCounter(counter[r])
             d == retry(err, n, method[r], retryOptions[r], current)
         IN /\ counter' = [s \in Requests |-> n]
            /\ lastErr' = [lastErr EXCEPT ![r] = err]
            /\ decision' = [decision EXCEPT ![r] = d.cb]
            /\ IF d.cb = "error"
               THEN /\ pc' = [pc EXCEPT ![r] = "rejected"]
                    /\ rejection' = [rejection EXCEPT ![r] = err]
                    /\ UNCHANGED <<timers, retryTimeout, due, clock>>
               ELSE /\ pc' = [pc EXCEPT ![r] = "backoff"]
                    /\ timers' = [timers EXCEPT ![r] = @ + 1]
                    /\ retryTimeout' = [retryTimeout EXCEPT ![r] = d.retryTimeout]
                    /\ due' = [due EXCEPT ![r] = FALSE]
                    /\ clock' = IF readsClock(err.retryAfter)
                                THEN [clock EXCEPT ![r] = current]
                                ELSE clock
                    /\ UNCHANGED rejection
    /\ UNCHANGED <<callable, inputs, method, retryOptions, attempts, hops, res,
                   facadeVars>>

\* The attempt in flight fails with err: the attempt count is incremented and
\* the retry callback runs; cb(err) rejects the request with err, otherwise
\* one timer is armed.
OnError(r) ==
    /\ pc[r] = "inflight"
    /\ \E err \in ErrorInputs, current \in Nows :
         LET n == nextCounter(counter[r])
             d == retry(err, n, method[r], retryOptions[r], current)
         IN /\ counter' = [counter EXCEPT ![r] = n]
            /\ lastErr' = [lastErr EXCEPT ![r] = err]
            /\ decision' = [decision EXCEPT ![r] = d.cb]
            /\ IF d.cb = "error"
               THEN /\ pc' = [pc EXCEPT ![r] = "rejected"]
                    /\ rejection' = [rejection EXCEPT ![r] = err]
                    /\ UNCHANGED <<timers, retryTimeout, due, clock>>
               ELSE /\ pc' = [pc EXCEPT ![r] = "backoff"]
                    /\ timers' = [timers EXCEPT ![r] = @ + 1]
                    /\ retryTimeout' = [retryTimeout EXCEPT ![r] = d.retryTimeout]
                    /\ due' = [due EXCEPT ![r] = FALSE]
                    /\ clock' = IF readsClock(err.retryAfter)
                                THEN [clock EXCEPT ![r] = current]
                                ELSE clock
                    /\ UNCHANGED rejection
    /\ UNCHANGED <<callable, inputs, method, retryOptions, attempts, hops, res,
                   facadeVars>>

\* The retryTimeout milliseconds of the armed timer pass.
DelayElapses(r) ==
    /\ pc[r] = "backoff"
    /\ ~due[r]
    /\ due' = [due EXCEPT ![r] = TRUE]
    /\ UNCHANGED <<callable, inputs, pc, method, retryOptions, counter, attempts, hops,
                   lastErr, decision, timers, retryTimeout, clock, res, rejection,
                   facadeVars>>

\* Mutation: cb(null) is called at once, as by setTimeout(cb(null), retryTimeout).
timerExpired_atOnce(r) == TRUE

\* Mutation: cb(null) is never called.
timerExpired_never(r) == FALSE

\* The timer callback runs only once its delay has elapsed.
timerExpired(r) == due[r]

\* setTimeout(() => cb(null), retryTimeout) fires: the request is dispatched
\* again.
TimerFires(r) ==
    /\ pc[r] = "backoff"
    /\ timerExpired(r)
    /\ attempts' = [attempts EXCEPT ![r] = @ + 1]
    /\ pc' = [pc EXCEPT ![r] = "inflight"]
    /\ UNCHANGED <<callable, inputs, method, retryOptions, counter, hops, lastErr,
                   decision, timers, retryTimeout, due, clock, res, rejection,
                   facadeVars>>

\* fetch() rejects with a value that did not come from the retry callback.
Reject(r) ==
    /\ pc[r] = "inflight"
    /\ \E v \in RejectionInputs : rejection' = [rejection EXCEPT ![r] = v]
    /\ pc' = [pc EXCEPT ![r] = "rejected"]
    /\ UNCHANGED <<callable, inputs, pipelineVars, res, facadeVars>>

\* fetchWithLog after `await fetch(url, opts)` resolved: the status checks,
\* then either `return res` or the catch block.
FetchResolves(r) ==
    /\ pc[r] = "resolved"
    /\ LET c == statusCheck(res[r])
       IN IF c.do = "return"
          THEN /\ pc' = [pc EXCEPT ![r] = "returned"]
               /\ UNCHANGED facadeVars
          ELSE /\ pc' = [pc EXCEPT ![r] = "thrown"]
               /\ caught' = [caught EXCEPT ![r] = c.err]
               /\ thrown' = [thrown EXCEPT ![r] = catchBlock(c.err).thrown]
               /\ log' = [log EXCEPT ![r] = @ \o catchBlock(c.err).logged]
    /\ UNCHANGED <<callable, inputs, pipelineVars, res, rejection>>

\* fetchWithLog after `await fetch(url, opts)` rejected: the catch block.
FetchRejects(r) ==
    /\ pc[r] = "rejected"
    /\ pc' = [pc EXCEPT ![r] = "thrown"]
    /\ caught' = [caught EXCEPT ![r] = rejection[r]]
    /\ thrown' = [thrown EXCEPT ![r] = catchBlock(rejection[r]).thrown]
    /\ log' = [log EXCEPT ![r] = @ \o catchBlock(rejection[r]).logged]
    /\ UNCHANGED <<callable, inputs, pipelineVars, res, rejection>>

Next ==
    \E r \in Requests :
        \/ Call(r)
        \/ Respond(r)
        \/ OnError(r)
        \/ DelayElapses(r)
        \/ TimerFires(r)
        \/ Reject(r)
        \/ FetchResolves(r)
        \/ FetchRejects(r)

Spec == Init /\ [][Next]_vars

\* ---------------------------------------------------------------------------
\* Runs with two concurrent requests
\* ---------------------------------------------------------------------------

InitConcurrent ==
    /\ callable = Requests
    /\ inputs = "few"
    /\ InitRequests

SpecConcurrent == InitConcurrent /\ [][Next]_vars

\* ---------------------------------------------------------------------------
\* Runs with redirects
\* ---------------------------------------------------------------------------

\* The attempt in flight ends with a redirect response and the cap is not
\* reached: the request is issued again at the Location.  The redirected
\* request either stays with the RetryState of the logical request or gets a
\* fresh one.
Redirect(r) ==
    /\ pc[r] = "inflight"
    /\ hops[r] < maxRedirections
    /\ hops' = [hops EXCEPT ![r] = @ + 1]
    /\ \E n \in {counter[r], 0} : counter' = [counter EXCEPT ![r] = n]
    /\ UNCHANGED <<callable, inputs, pc, method, retryOptions, attempts, lastErr,
                   decision, timers, retryTimeout, due, clock, res, rejection,
                   facadeVars>>

\* The attempt in flight ends with a redirect response and the cap is
\* reached: the redirect is not followed; the request fails with a terminal
\* error or the redirect response itself is handed to the caller of fetch().
RedirectLimit(r) ==
    /\ pc[r] = "inflight"
    /\ hops[r] >= maxRedirections
    /\ \/ /\ pc' = [pc EXCEPT ![r] = "rejected"]
          /\ rejection' = [rejection EXCEPT ![r] = RedirectError]
          /\ UNCHANGED res
       \/ /\ pc' = [pc EXCEPT ![r] = "resolved"]
          /\ \E status \in RedirectStatuses : res' = [res EXCEPT ![r] = status]
          /\ UNCHANGED rejection
    /\ UNCHANGED <<callable, inputs, pipelineVars, facadeVars>>

InitRedirect ==
    /\ callable = {"r1"}
    /\ inputs = "few"
    /\ InitRequests

NextRedirect ==
    \E r \in Requests :
        \/ Call(r)
        \/ Respond(r)
        \/ OnError(r)
        \/ DelayElapses(r)
        \/ TimerFires(r)
        \/ Reject(r)
        \/ Redirect(r)
        \/ RedirectLimit(r)
        \/ FetchResolves(r)
        \/ FetchRejects(r)

SpecRedirect == InitRedirect /\ [][NextRedirect]_vars

\* ---------------------------------------------------------------------------
\* Runs with redirects in which attempts, timers and continuations complete
\* ---------------------------------------------------------------------------

\* The attempt in flight ends, one way or another.
AttemptEnds(r) ==
    \/ Respond(r)
    \/ OnError(r)
    \/ Reject(r)
    \/ Redirect(r)
    \/ RedirectLimit(r)

\* The continuation of `await fetch(url, opts)` runs.
Continues(r) == FetchResolves(r) \/ FetchRejects(r)

Fairness ==
    \A r \in Requests :
        /\ WF_vars(AttemptEnds(r))
        /\ WF_vars(DelayElapses(r))
        /\ WF_vars(TimerFires(r))
        /\ WF_vars(Continues(r))

SpecLive == InitRedirect /\ [][NextRedirect]_vars /\ Fairness

\* ---------------------------------------------------------------------------
\* Properties
\* ---------------------------------------------------------------------------

Finished(r) == pc[r] \in {"returned", "thrown"}

\* The retry callback signalled lastErr[r] and the request was not retried.
Surfaced(r) ==
    /\ decision[r] = "error"
    /\ pc[r] \in {"rejected", "thrown"}
    /\ rejection[r] = lastErr[r]

\* A step in which an attempt of r failed and the retry callback ran: it armed
\* a timer or changed its decision to "error".
FailedAttempt(r) == timers'[r] # timers[r] \/ decision'[r] # decision[r]

C2_StatusCheck ==
    \A r \in Requests :
        (Finished(r) /\ res[r] # NoStatus) =>
            IF res[r] < 400 /\ (res[r] \in 200..299 \/ res[r] = 304)
            THEN pc[r] = "returned" /\ caught[r] = NoError /\ thrown[r] = NoError
            ELSE /\ pc[r] = "thrown"
                 /\ caught[r] = ResponseError(res[r])
                 /\ thrown[r] = ResponseError(res[r])

\* A 304 response was returned to the caller.
C2_Witness ==
    \E r \in Requests : pc[r] = "returned" /\ res[r] = 304

\* C3: whatever value enters the catch block of fetchWithLog is the value
\* fetchWithLog throws.
C3_RethrowsUnchanged ==
    \A r \in Requests : pc[r] = "thrown" => thrown[r] = caught[r]

\* C4: every failure that enters the catch block of fetchWithLog is logged
\* exactly once before it is re-thrown.
C4_LoggedOnce ==
    \A r \in Requests : pc[r] = "thrown" => Len(log[r]) = 1

\* A cancellation or request-path escaping error, as the retry callback
\* recognises it.
CancelledOrEscaping(err) ==
    \/ err.name = "AbortError"
    \/ err.code = "ERR_UNESCAPED_CHARACTERS"
    \/ err.message = UnescapedMessage

\* C5: a failed attempt whose error is a cancellation or a request-path
\* escaping error is never retried, whatever its attemptCount, method and code.
C5_NoRetryOnAbortOrEscaping ==
    \A r \in Requests :
        (lastErr[r] # NoError /\ CancelledOrEscaping(lastErr[r])) => Surfaced(r)

\* A cancellation that carries the retry-requested code failed on a retried
\* request with budget left and an allowed method.
C5_Witness ==
    \E r \in Requests :
        /\ lastErr[r].name = "AbortError"
        /\ lastErr[r].code = "UND_ERR_REQ_RETRY"
        /\ counter[r] = 2
        /\ counter[r] <= maxRetriesOf(retryOptions[r])
        /\ method[r] \in methodsOf(retryOptions[r])
        /\ Surfaced(r)

\* A cancellation failure: an error object named AbortError or carrying the
\* digest AbortError.
Cancellation(err) ==
    /\ err.kind = "error"
    /\ (err.name = "AbortError" \/ err.digest = "AbortError")

InLog(line, r) == \E i \in 1..Len(log[r]) : log[r][i] = line

C7_MethodNotAllowed ==
    \A r \in Requests :
        (lastErr[r] # NoError /\ method[r] \notin methodsOf(retryOptions[r])) =>
            /\ Surfaced(r)
            /\ timers[r] = 0
            /\ attempts[r] = 1
            /\ counter[r] = 1

\* A POST failed with a retry-requested error that nothing else rejects.
C7_Witness ==
    \E r \in Requests :
        /\ method[r] = "POST"
        /\ retryOptions[r] = GlobalRetryOptions
        /\ lastErr[r] = Err("Error", "UND_ERR_REQ_RETRY", "failed", 500, NoHeader)
        /\ Surfaced(r)

\* C8: a failed attempt with status 401, 403, 404 or 405 is never retried.
C8_TerminalStatus ==
    \A r \in Requests :
        lastErr[r].statusCode \in {401, 403, 404, 405} => Surfaced(r)

\* A retry-requested 404 failed with budget left and an allowed method.
C8_Witness ==
    \E r \in Requests :
        /\ lastErr[r] = Err("Error", "UND_ERR_REQ_RETRY", "failed", 404, NoHeader)
        /\ counter[r] <= maxRetriesOf(retryOptions[r])
        /\ method[r] \in methodsOf(retryOptions[r])
        /\ Surfaced(r)

\* C9: a timer is armed only for a failure whose code is UND_ERR_REQ_RETRY;
\* a failure with another code or none is surfaced at once.
C9_OnlyRetryRequested ==
    \A r \in Requests :
        /\ decision[r] = "timer" => lastErr[r].code = "UND_ERR_REQ_RETRY"
        /\ (lastErr[r] # NoError /\ lastErr[r].code # "UND_ERR_REQ_RETRY") => Surfaced(r)

\* An ECONNRESET failed on the first attempt of a GET and was surfaced.
C9_Witness ==
    \E r \in Requests :
        /\ lastErr[r] = Err("Error", "ECONNRESET", "failed", NoStatus, NoHeader)
        /\ method[r] = "GET"
        /\ counter[r] = 1
        /\ Surfaced(r)

\* The schedule 10000, 20000, 30000, 30000, ... before attempts 2, 3, 4, 5, ...
GlobalSchedule(n) ==
    CASE n = 1 -> 10000
      [] n = 2 -> 20000
      [] OTHER -> 30000

\* C10: without a Retry-After header the delay armed after the failure with
\* attemptCount n is min(minTimeout * timeoutFactor^(n-1), maxTimeout); with
\* 10000, 30000 and 2 it is 10000, 20000, 30000, 30000, ...
C10_ExponentialBackoff ==
    \A r \in Requests :
        (decision[r] = "timer" /\ lastErr[r].retryAfter.type = "absent") =>
            LET ro == retryOptions[r]
                n == counter[r]
            IN /\ retryTimeout[r] =
                    Min(minTimeoutOf(ro) * Pow(timeoutFactorOf(ro), n - 1), maxTimeoutOf(ro))
               /\ (/\ minTimeoutOf(ro) = 10000
                   /\ maxTimeoutOf(ro) = 30000
                   /\ timeoutFactorOf(ro) = 2) => retryTimeout[r] = GlobalSchedule(n)

\* The second retry of a request under the global options waits 20000 ms.
C10_Witness ==
    \E r \in Requests :
        /\ retryOptions[r] = GlobalRetryOptions
        /\ decision[r] = "timer"
        /\ lastErr[r].retryAfter.type = "absent"
        /\ counter[r] = 2
        /\ attempts[r] = 2
        /\ retryTimeout[r] = 20000

\* The milliseconds a Retry-After header asks for, read at the instant now:
\* seconds times 1000, or the HTTP date minus now; 0 when it gives no number.
RetryAfterMillis(header, now) ==
    CASE header.type = "seconds" -> header.val * 1000
      [] header.type = "date" -> header.val - now
      [] OTHER -> 0

\* min(minTimeout * timeoutFactor^(n-1), maxTimeout) for the request's options.
ExponentialDelay(r) ==
    LET ro == retryOptions[r]
    IN Min(minTimeoutOf(ro) * Pow(timeoutFactorOf(ro), counter[r] - 1), maxTimeoutOf(ro))

\* C11: when a retried failure carries a Retry-After header with a positive
\* value, the armed delay is that value in milliseconds, at most maxTimeout:
\* Retry-After: 2 gives 2000 ms and a value above maxTimeout gives maxTimeout.
C11_RetryAfterDelay ==
    \A r \in Requests :
        LET h == lastErr[r].retryAfter
            ms == RetryAfterMillis(h, clock[r])
            maxT == maxTimeoutOf(retryOptions[r])
        IN (decision[r] = "timer" /\ ms > 0) =>
              /\ retryTimeout[r] = Min(ms, maxT)
              /\ retryTimeout[r] <= maxT
              /\ ms > maxT => retryTimeout[r] = maxT
              /\ (h = [type |-> "seconds", val |-> 2] /\ maxT >= 2000) =>
                     retryTimeout[r] = 2000

\* A retry after Retry-After: 2 waits 2000 ms although the exponential delay
\* of that attempt is 10000 ms.
C11_Witness ==
    \E r \in Requests :
        /\ decision[r] = "timer"
        /\ retryOptions[r] = GlobalRetryOptions
        /\ lastErr[r].retryAfter = [type |-> "seconds", val |-> 2]
        /\ retryTimeout[r] = 2000
        /\ ExponentialDelay(r) = 10000

\* C20: when the Retry-After header of a retried failure gives no positive
\* value (0, negative, a date not after now, unparsable), the armed delay is
\* the exponential backoff; every armed delay is above 0 and at most
\* maxTimeout when minTimeout > 0.
C20_NonPositiveRetryAfter ==
    \A r \in Requests :
        LET h == lastErr[r].retryAfter
            ms == RetryAfterMillis(h, clock[r])
        IN decision[r] = "timer" =>
              /\ (h.type # "absent" /\ ms <= 0) => retryTimeout[r] = ExponentialDelay(r)
              /\ minTimeoutOf(retryOptions[r]) > 0 =>
                     /\ retryTimeout[r] > 0
                     /\ retryTimeout[r] <= maxTimeoutOf(retryOptions[r])

\* A retry after an HTTP date that is not after now waits the exponential
\* delay.
C20_Witness ==
    \E r \in Requests :
        /\ decision[r] = "timer"
        /\ lastErr[r].retryAfter = [type |-> "date", val |-> 1000]
        /\ clock[r] >= 1000
        /\ retryTimeout[r] = ExponentialDelay(r)

\* The failure lastErr[r] passes the checks 1 to 5 of the retry engine: it is
\* no cancellation or escaping error, carries the retry-requested code, is
\* within the budget, has an allowed method and no terminal status.
Retriable(r) ==
    /\ lastErr[r] # NoError
    /\ ~CancelledOrEscaping(lastErr[r])
    /\ lastErr[r].code = "UND_ERR_REQ_RETRY"
    /\ counter[r] <= maxRetriesOf(retryOptions[r])
    /\ method[r] \in methodsOf(retryOptions[r])
    /\ lastErr[r].statusCode \notin {401, 403, 404, 405}

SuccessStatus(status) == status \in 200..299 \/ status = 304

\* C12: a retriable failure is retried and not surfaced; when a later attempt
\* ends with a success response, fetchWithLog returns that response and no
\* error was rejected, caught, thrown or logged for the request.
C12_RetryThenSuccess ==
    \A r \in Requests :
        /\ Retriable(r) => (decision[r] = "timer" /\ rejection[r] # lastErr[r])
        /\ (Finished(r) /\ timers[r] >= 1 /\ SuccessStatus(res[r])) => pc[r] = "returned"
        /\ pc[r] = "returned" =>
              /\ SuccessStatus(res[r])
              /\ rejection[r] = NoError
              /\ caught[r] = NoError
              /\ thrown[r] = NoError
              /\ log[r] = <<>>

\* A 500 signalled as retry-requested was retried and the second attempt's
\* 200 was returned.
C12_Witness ==
    \E r \in Requests :
        /\ lastErr[r] = Err("Error", "UND_ERR_REQ_RETRY", "failed", 500, NoHeader)
        /\ timers[r] = 1
        /\ attempts[r] = 2
        /\ res[r] = 200
        /\ pc[r] = "returned"

\* C13: redirects are followed at most 5 times; a redirect that arrives after
\* the fifth hop is not followed and the request ends in a thrown failure,
\* never in a returned response.
C13_RedirectCap ==
    \A r \in Requests :
        /\ hops[r] <= 5
        /\ rejection[r] = RedirectError => (hops[r] = 5 /\ pc[r] \in {"rejected", "thrown"})
        /\ res[r] \in RedirectStatuses => (hops[r] = 5 /\ pc[r] \in {"resolved", "thrown"})
        /\ (Finished(r) /\ (rejection[r] = RedirectError \/ res[r] \in RedirectStatuses)) =>
              /\ pc[r] = "thrown"
              /\ thrown[r] \in {RedirectError, ResponseError(res[r])}
        /\ pc[r] = "returned" => (rejection[r] = NoError /\ res[r] \notin RedirectStatuses)

\* After five hops a sixth redirect arrived and the request ended in a throw.
C13_Witness ==
    \E r \in Requests :
        /\ hops[r] = 5
        /\ pc[r] = "thrown"
        /\ (caught[r] = RedirectError \/ res[r] \in RedirectStatuses)

\* C14: every logical request that was issued eventually returns a response
\* or throws, whatever its attempts end with.
C14_Terminates ==
    \A r \in Requests : (pc[r] # "idle") ~> Finished(r)

\* A request finished after retries and redirect hops.
C14_Witness ==
    \E r \in Requests :
        /\ Finished(r)
        /\ timers[r] >= 2
        /\ hops[r] >= 1

RequestState(r) ==
    <<pc[r], method[r], retryOptions[r], counter[r], attempts[r], hops[r], lastErr[r],
      decision[r], timers[r], retryTimeout[r], due[r], clock[r], res[r], rejection[r],
      caught[r], thrown[r], log[r]>>

\* C17: with two requests in flight, a step of one request (failure, retry,
\* backoff wait, cancellation, result) leaves the attemptCount, the armed
\* delay and everything else of the other request unchanged.
C17_Isolation ==
    [][\A r, s \in Requests :
         (r # s /\ RequestState(r)' # RequestState(r)) =>
             RequestState(s)' = RequestState(s)]_vars

\* One request waits for its second retry while the other has been
\* cancelled after one failure.
C17_Witness ==
    \E r, s \in Requests :
        /\ r # s
        /\ pc[r] = "backoff"
        /\ counter[r] = 2
        /\ pc[s] = "thrown"
        /\ counter[s] = 1
        /\ caught[s].name = "AbortError"

\* The retry engine rejected a retry-requested failure by its budget, method
\* or status check.
RejectedByChecks(r) ==
    /\ decision[r] = "error"
    /\ lastErr[r].code = "UND_ERR_REQ_RETRY"
    /\ ~CancelledOrEscaping(lastErr[r])

\* C18: when the retry engine rejects a retry-requested failure because of
\* the budget, the method or the status, the error fetchWithLog throws is the
\* error of that last attempt, unchanged.
C18_OriginalErrorPropagates ==
    \A r \in Requests :
        RejectedByChecks(r) =>
            /\ rejection[r] = lastErr[r]
            /\ pc[r] \in {"rejected", "thrown"}
            /\ pc[r] = "thrown" => (caught[r] = lastErr[r] /\ thrown[r] = lastErr[r])

\* The sixth failure of a GET exceeded the budget and was thrown.
C18_Witness ==
    \E r \in Requests :
        /\ pc[r] = "thrown"
        /\ counter[r] > maxRetriesOf(retryOptions[r])
        /\ method[r] = "GET"
        /\ lastErr[r] = Err("Error", "UND_ERR_REQ_RETRY", "failed", 500, NoHeader)
        /\ thrown[r] = lastErr[r]

\* C19: each run of the retry engine on a failed attempt either signals the
\* error without arming a timer (a check of 1 to 5 rejects it) or arms
\* exactly one timer without signalling, and each timer triggers exactly one
\* further attempt.
C19_OneOutcome ==
    [][\A r \in Requests :
         /\ FailedAttempt(r) =>
               IF Retriable(r)'
               THEN /\ decision'[r] = "timer"
                    /\ timers'[r] = timers[r] + 1
                    /\ pc'[r] = "backoff"
                    /\ ~due'[r]
                    /\ rejection'[r] = NoError
               ELSE /\ decision'[r] = "error"
                    /\ timers'[r] = timers[r]
                    /\ retryTimeout'[r] = retryTimeout[r]
                    /\ pc'[r] = "rejected"
                    /\ rejection'[r] = lastErr'[r]
         /\ attempts'[r] =
               timers'[r] + (IF pc'[r] \in {"idle", "backoff"} THEN 0 ELSE 1)]_vars

\* Two failures armed one timer each, each timer started one attempt, and
\* the third failure was signalled without a timer.
C19_Witness ==
    \E r \in Requests :
        /\ timers[r] = 2
        /\ attempts[r] = 3
        /\ counter[r] = 3
        /\ decision[r] = "error"
        /\ pc[r] = "rejected"

====
